---------------------------- MODULE Spec2Model ----------------------------
(***************************************************************************)
(* Vertex groups from a greyscale texture (src/init.py).                   *)
(*                                                                         *)
(* A behaviour is one invocation of the operator's execute, on an image,   *)
(* a mesh and the vertex groups the object already has; what earlier       *)
(* invocations left is part of the initial vertex groups.  execute is one  *)
(* blocking call, so it is one step: the step computes the groups the call *)
(* leaves behind, also when the call raises part-way.                      *)
(*                                                                         *)
(* Real numbers (channel values, intensities, levels, weights, UV          *)
(* coordinates) are exact rationals <<n, d>> in lowest terms with d > 0;   *)
(* floating-point rounding is not modelled.                                *)
(***************************************************************************)
EXTENDS Integers, Sequences, FiniteSets, TLC

VARIABLES
    image,          \* the texture: size, channels, pixels[<<y, x>>]
    mesh,           \* obj.data: the active UV layer (or none) and the face corners
    vertex_groups,  \* obj.vertex_groups: group name -> (vertex index -> weight)
    pc,             \* "idle" before the operator runs, "done" after
    args,           \* the operator's properties for this invocation
    outcome,        \* how the invocation ended
    trace,          \* what the engine computed on the way (history)
    qcall           \* a direct call of quantize_colors: arguments and result

vars == <<image, mesh, vertex_groups, pc, args, outcome, trace, qcall>>

---------------------------------------------------------------------------
(* Bounds of the model *)

MaxCorners == 2      \* face corners (loops) of the mesh
MaxK == 3            \* largest num_clusters tried

Half == <<1, 2>>
ChanVals == {<<0, 1>>, Half, <<1, 1>>}
\* the pixels an image is drawn from, per channel count
Palette(c) ==
    IF c = 1 THEN {<<v>> : v \in ChanVals}
    ELSE {<<<<1, 1>>, <<1, 1>>, <<1, 1>>, <<0, 1>>>>,
          <<<<0, 1>>, <<1, 1>>, Half, <<1, 1>>>>}
ChannelCounts == {1, 4}
Sizes == {<<1, 1>>, <<2, 1>>, <<3, 1>>, <<1, 2>>}     \* <<width, height>>
Verts == {0, 1}
\* UV points on the diagonal: (0,0), (1/2,1/2), (1,1) inside the unit square and
\* (2,2) outside it
UVPoints == {<<r, r>> : r \in {<<0, 1>>, Half, <<1, 1>>, <<2, 1>>}}
MinSizes == {1, 2}
Intensities == {<<0, 1>>, <<1, 4>>, Half, <<3, 4>>, <<1, 1>>}
WeightGroupName == <<"Texture_Weights">>
BaseGroupName == "group"

---------------------------------------------------------------------------
(* Exact rational arithmetic *)

Abs(n) == IF n < 0 THEN -n ELSE n

RECURSIVE Gcd(_, _)
Gcd(a, b) == IF b = 0 THEN a ELSE Gcd(b, a % b)

\* lowest terms, positive denominator (d # 0)
Norm(r) ==
    LET n == IF r[2] < 0 THEN -r[1] ELSE r[1]
        d == Abs(r[2])
        g == Gcd(Abs(n), d)
    IN <<n \div g, d \div g>>

RLe(a, b) == a[1] * b[2] <= b[1] * a[2]
RLt(a, b) == a[1] * b[2] < b[1] * a[2]
RAdd(a, b) == Norm(<<a[1] * b[2] + b[1] * a[2], a[2] * b[2]>>)
RSub(a, b) == Norm(<<a[1] * b[2] - b[1] * a[2], a[2] * b[2]>>)
RMul(a, b) == Norm(<<a[1] * b[1], a[2] * b[2]>>)
RDiv(a, b) == Norm(<<a[1] * b[2], a[2] * b[1]>>)
RAbs(a) == <<Abs(a[1]), a[2]>>
REq(a, b) == a[1] * b[2] = b[1] * a[2]
\* abs(a - b), not reduced
RDist(a, b) == <<Abs(a[1] * b[2] - b[1] * a[2]), a[2] * b[2]>>
RInt(n) == <<n, 1>>
ROne == RInt(1)
RZero == RInt(0)

RMin(S) == CHOOSE a \in S : \A b \in S : RLe(a, b)
RMax(S) == CHOOSE a \in S : \A b \in S : RLe(b, a)

\* int(): truncation toward zero
Trunc(r) == IF r[1] >= 0 THEN r[1] \div r[2] ELSE -((-r[1]) \div r[2])

RECURSIVE Sum(_)
Sum(s) == IF s = <<>> THEN RZero ELSE RAdd(Head(s), Sum(Tail(s)))

\* np.mean of a sequence of values
Mean(s) == RDiv(Sum(s), RInt(Len(s)))

\* sorted(): the ascending sequence of a set of distinct rationals
RECURSIVE Sorted(_)
Sorted(S) ==
    IF S = {} THEN <<>>
    ELSE LET m == RMin(S) IN <<m>> \o Sorted(S \ {m})

Range(s) == {s[i] : i \in DOMAIN s}

---------------------------------------------------------------------------
(* analyze_texture and quantize_colors *)

\* greyscale of one pixel in analyze_texture: the mean of pixels[:, :, :3]
Greyscale(px, channels) ==
    IF channels > 1
    THEN Mean(SubSeq(px, 1, IF Len(px) < 3 THEN Len(px) ELSE 3))
    ELSE px[1]

\* np.unique(greyscale): the set of distinct intensities of the image
analyze_texture(img) ==
    {Greyscale(img.pixels[p], img.channels) : p \in DOMAIN img.pixels}

\* np.linspace(lo, hi, num): num points, the last one hi itself
Linspace(lo, hi, num) ==
    IF num = 1 THEN <<lo>>
    ELSE [i \in 1..num |->
            RAdd(lo, RDiv(RMul(RInt(i - 1), RSub(hi, lo)), RInt(num - 1)))]

\* np.digitize(x, bins), bins non-decreasing: the i with bins[i-1] <= x < bins[i],
\* which is the number of bin edges that are <= x
Digitize(x, bins) == Cardinality({i \in DOMAIN bins : RLe(bins[i], x)})

\* (index) / (num_clusters - 1) in numpy: a zero divisor gives nan or inf, no error
QuantizedValue(idx, K) ==
    IF K - 1 = 0 THEN (IF idx = 0 THEN "nan" ELSE "inf")
    ELSE Norm(<<idx, K - 1>>)

\* the set np.unique(quantized_colors), or the ValueError of np.min / np.linspace
quantize_colors(colors, K) ==
    IF colors = {} \/ K + 1 < 0
    THEN [outcome |-> "ValueError", levels |-> {}]
    ELSE LET bins == Linspace(RMin(colors), RMax(colors), K + 1)
         IN [outcome |-> "ok",
             levels |-> {QuantizedValue(Digitize(c, bins) - 1, K) : c \in colors}]

---------------------------------------------------------------------------
(* Sampling a face corner: lines 186-189 and 222-225 *)

Loops(m) == m.loops

\* x, y = int(uv.x * (width - 1)), int(uv.y * (height - 1))
PixelXY(uv, size) ==
    <<Trunc(RMul(uv[1], RInt(size[1] - 1))), Trunc(RMul(uv[2], RInt(size[2] - 1)))>>

\* an index numpy accepts on an axis of length n: -n <= i < n
IndexOk(i, n) == -n <= i /\ i < n

\* a negative index counts from the end
WrapIndex(i, n) == IF i < 0 THEN i + n ELSE i

\* pixels[y, x] raises IndexError
SampleFaults(img, uv) ==
    LET xy == PixelXY(uv, img.size)
    IN ~(IndexOk(xy[1], img.size[1]) /\ IndexOk(xy[2], img.size[2]))

\* np.mean(pixels[y, x]) if image.channels > 1 else pixels[y, x, 0]
PixelValue(px, channels) == IF channels > 1 THEN Mean(px) ELSE px[1]

\* pixel_value of one face corner (when the index is accepted)
Sample(img, uv) ==
    LET xy == PixelXY(uv, img.size)
        x == WrapIndex(xy[1], img.size[1])
        y == WrapIndex(xy[2], img.size[2])
    IN PixelValue(img.pixels[<<y, x>>], img.channels)

\* the loop over mesh.polygons and poly.loop_indices stops at the first IndexError
SamplingFaults(m, img) ==
    \E i \in DOMAIN Loops(m) : SampleFaults(img, Loops(m)[i].uv)

Samples(m, img) == [i \in DOMAIN Loops(m) |-> Sample(img, Loops(m)[i].uv)]

---------------------------------------------------------------------------
(* obj.vertex_groups *)

\* obj.vertex_groups.get(name) or obj.vertex_groups.new(name=name)
GetOrNew(groups, name) ==
    IF name \in DOMAIN groups THEN groups ELSE groups @@ (name :> <<>>)

\* group.add([vertex_index], weight, 'REPLACE')
GroupAdd(groups, name, vertex_index, weight) ==
    [groups EXCEPT ![name] = (vertex_index :> weight) @@ @]

\* f"{base_group_name}.{n:02d}": the base and the two digits
GroupName(base, n) == <<base, n \div 10, n % 10>>

---------------------------------------------------------------------------
(* assign_vertex_groups *)

\* min(unique_colors, key=lambda c: abs(c - pixel_value)): the first minimum in
\* the order of unique_colors, which np.unique returns ascending
ClosestColor(unique_colors, pixel_value) ==
    CHOOSE c \in unique_colors :
        \A d \in unique_colors :
            LET dc == RDist(c, pixel_value)
                dd == RDist(d, pixel_value)
            IN RLt(dc, dd) \/ (REq(dc, dd) /\ RLe(c, d))

\* vertex_group_assignments after the sampling loop
Assignments(unique_colors, m, samples) ==
    [c \in unique_colors |->
        {Loops(m)[i].vertex_index :
            i \in {j \in DOMAIN samples : ClosestColor(unique_colors, samples[j]) = c}}]

\* weight = 1.0 - abs(color - pixel_value), pixel_value being the variable the
\* sampling loop left behind: the value of the last face corner sampled
GroupWeight(color, pixel_value) == RSub(ROne, RAbs(RSub(color, pixel_value)))

\* the loop over the vertices of one created group
RECURSIVE AddVertices(_, _, _, _, _)
AddVertices(groups, name, todo, weight, threshold) ==
    IF todo = {} THEN groups
    ELSE LET v == CHOOSE u \in todo : \A w \in todo : u <= w
             g == IF RLe(threshold, weight)
                  THEN GroupAdd(groups, name, v, weight)
                  ELSE groups
         IN AddVertices(g, name, todo \ {v}, weight, threshold)

\* CreateGroups with groups_created += 1 moved out of the if: a level too small
\* for a group takes a number
RECURSIVE CreateGroupsCountingSkipped(_, _, _, _, _, _, _)
CreateGroupsCountingSkipped(order, st, assignments, pixel_value, threshold, min_group_size, base) ==
    IF order = <<>> THEN st
    ELSE LET color == Head(order)
             vertex_indices == assignments[color]
             name == GroupName(base, st.groups_created + 1)
             made ==
                 [groups |-> AddVertices(GetOrNew(st.groups, name), name, vertex_indices,
                                         GroupWeight(color, pixel_value), threshold),
                  groups_created |-> st.groups_created + 1,
                  created |-> Append(st.created, [name |-> name, color |-> color])]
             skipped == [st EXCEPT !.groups_created = @ + 1]
         IN CreateGroupsCountingSkipped(
                Tail(order),
                IF Cardinality(vertex_indices) >= min_group_size THEN made ELSE skipped,
                assignments, pixel_value, threshold, min_group_size, base)

\* the loop over sorted(vertex_group_assignments.keys()); st holds groups,
\* groups_created and, for the record, the (name, color) of each group made
RECURSIVE CreateGroups(_, _, _, _, _, _, _)
CreateGroups(order, st, assignments, pixel_value, threshold, min_group_size, base) ==
    IF order = <<>> THEN st
    ELSE LET color == Head(order)
             vertex_indices == assignments[color]
             name == GroupName(base, st.groups_created + 1)
             made ==
                 [groups |-> AddVertices(GetOrNew(st.groups, name), name, vertex_indices,
                                         GroupWeight(color, pixel_value), threshold),
                  groups_created |-> st.groups_created + 1,
                  created |-> Append(st.created, [name |-> name, color |-> color])]
         IN CreateGroups(Tail(order),
                         IF Cardinality(vertex_indices) >= min_group_size THEN made ELSE st,
                         assignments, pixel_value, threshold, min_group_size, base)

\* nothing computed yet
NoTrace ==
    [samples |-> <<>>, levels |-> {}, assignments |-> <<>>, created |-> <<>>,
     writes |-> <<>>]

\* the whole function: the groups it leaves, how it ends, and what it computed
assign_vertex_groups(groups, m, unique_colors, img, threshold, min_group_size, base) ==
    IF ~m.uv_active
    THEN [groups |-> groups, outcome |-> "ValueError", trace |-> NoTrace]
    ELSE IF SamplingFaults(m, img)
    THEN [groups |-> groups, outcome |-> "IndexError", trace |-> NoTrace]
    ELSE LET samples == Samples(m, img)
             assignments == Assignments(unique_colors, m, samples)
             pixel_value == IF samples = <<>> THEN RZero ELSE samples[Len(samples)]
             st == CreateGroups(Sorted(unique_colors),
                                [groups |-> groups, groups_created |-> 0, created |-> <<>>],
                                assignments, pixel_value, threshold, min_group_size, base)
         IN [groups |-> st.groups, outcome |-> "True",
             trace |-> [samples |-> samples, levels |-> unique_colors,
                        assignments |-> assignments, created |-> st.created,
                        writes |-> <<>>]]

---------------------------------------------------------------------------
(* assign_weights_from_texture *)

\* Normalized with the rescaling dividing by max_weight instead of weight_range
NormalizedByMax(weights) ==
    LET ws == {weights[i].weight : i \in DOMAIN weights}
        min_weight == RMin(ws)
        max_weight == RMax(ws)
        weight_range == RSub(max_weight, min_weight)
    IN IF RLt(RZero, weight_range)
       THEN [i \in DOMAIN weights |->
                [vertex_index |-> weights[i].vertex_index,
                 weight |-> RDiv(RSub(weights[i].weight, min_weight), max_weight)]]
       ELSE [i \in DOMAIN weights |->
                [vertex_index |-> weights[i].vertex_index, weight |-> ROne]]

\* weights = [(idx, (w - min_weight) / weight_range) ...] or [(idx, 1.0) ...]
Normalized(weights) ==
    LET ws == {weights[i].weight : i \in DOMAIN weights}
        min_weight == RMin(ws)
        max_weight == RMax(ws)
        weight_range == RSub(max_weight, min_weight)
    IN IF RLt(RZero, weight_range)
       THEN [i \in DOMAIN weights |->
                [vertex_index |-> weights[i].vertex_index,
                 weight |-> RDiv(RSub(weights[i].weight, min_weight), weight_range)]]
       ELSE [i \in DOMAIN weights |->
                [vertex_index |-> weights[i].vertex_index, weight |-> ROne]]

\* for vertex_index, weight in weights: group.add([vertex_index], weight, 'REPLACE')
RECURSIVE WriteWeights(_, _, _)
WriteWeights(groups, name, weights) ==
    IF weights = <<>> THEN groups
    ELSE WriteWeights(GroupAdd(groups, name, Head(weights).vertex_index,
                               Head(weights).weight),
                      name, Tail(weights))

\* assign_weights_from_texture with the group made before the UV check
assign_weights_group_first(groups, m, img, group_name, normalize) ==
    LET got == GetOrNew(groups, group_name)
    IN IF ~m.uv_active
       THEN [groups |-> got, outcome |-> "ValueError", trace |-> NoTrace]
       ELSE IF SamplingFaults(m, img)
       THEN [groups |-> got, outcome |-> "IndexError", trace |-> NoTrace]
       ELSE LET samples == Samples(m, img)
                weights == [i \in DOMAIN samples |->
                               [vertex_index |-> Loops(m)[i].vertex_index,
                                weight |-> samples[i]]]
            IN IF normalize /\ weights = <<>>
               THEN [groups |-> got, outcome |-> "ValueError",
                     trace |-> [NoTrace EXCEPT !.samples = samples]]
               ELSE LET final == IF normalize THEN Normalized(weights) ELSE weights
                    IN [groups |-> WriteWeights(got, group_name, final),
                        outcome |-> "True",
                        trace |-> [NoTrace EXCEPT !.samples = samples,
                                                  !.writes = final]]

\* assign_weights_from_texture with group.add inside the sampling loop: the
\* face corners before an IndexError have been written
assign_weights_eager(groups, m, img, group_name, normalize) ==
    LET got == GetOrNew(groups, group_name)
    IN IF ~m.uv_active
       THEN [groups |-> groups, outcome |-> "ValueError", trace |-> NoTrace]
       ELSE IF SamplingFaults(m, img)
       THEN LET first == CHOOSE i \in DOMAIN Loops(m) :
                            /\ SampleFaults(img, Loops(m)[i].uv)
                            /\ \A j \in 1..(i - 1) : ~SampleFaults(img, Loops(m)[j].uv)
                sampled == [i \in 1..(first - 1) |->
                               [vertex_index |-> Loops(m)[i].vertex_index,
                                weight |-> Sample(img, Loops(m)[i].uv)]]
            IN [groups |-> WriteWeights(got, group_name, sampled),
                outcome |-> "IndexError", trace |-> NoTrace]
       ELSE LET samples == Samples(m, img)
                weights == [i \in DOMAIN samples |->
                               [vertex_index |-> Loops(m)[i].vertex_index,
                                weight |-> samples[i]]]
            IN IF normalize /\ weights = <<>>
               THEN [groups |-> got, outcome |-> "ValueError",
                     trace |-> [NoTrace EXCEPT !.samples = samples]]
               ELSE LET final == IF normalize THEN Normalized(weights) ELSE weights
                    IN [groups |-> WriteWeights(got, group_name, final),
                        outcome |-> "True",
                        trace |-> [NoTrace EXCEPT !.samples = samples,
                                                  !.writes = final]]

\* the whole function: the groups it leaves, how it ends, and what it computed
assign_weights_from_texture(groups, m, img, group_name, normalize) ==
    IF ~m.uv_active
    THEN [groups |-> groups, outcome |-> "ValueError", trace |-> NoTrace]
    ELSE LET got == GetOrNew(groups, group_name)
         IN IF SamplingFaults(m, img)
            THEN [groups |-> got, outcome |-> "IndexError", trace |-> NoTrace]
            ELSE LET samples == Samples(m, img)
                     weights == [i \in DOMAIN samples |->
                                    [vertex_index |-> Loops(m)[i].vertex_index,
                                     weight |-> samples[i]]]
                 IN IF normalize /\ weights = <<>>
                    THEN [groups |-> got, outcome |-> "ValueError",
                          trace |-> [NoTrace EXCEPT !.samples = samples]]
                    ELSE LET final == IF normalize THEN Normalized(weights) ELSE weights
                         IN [groups |-> WriteWeights(got, group_name, final),
                             outcome |-> "True",
                             trace |-> [NoTrace EXCEPT !.samples = samples,
                                                       !.writes = final]]

---------------------------------------------------------------------------
(* VGBT_OT_create_groups.execute *)

\* the try block: True gives FINISHED, a ValueError is reported and gives
\* CANCELLED, any other exception leaves execute
Report(engine_outcome) ==
    IF engine_outcome = "True" THEN [result |-> "FINISHED", error |-> "none"]
    ELSE IF engine_outcome = "ValueError"
    THEN [result |-> "CANCELLED", error |-> "ValueError"]
    ELSE [result |-> "RAISED", error |-> engine_outcome]

\* threshold = 1 / (2 * self.num_clusters)
Threshold(K) == Norm(<<1, 2 * K>>)

ClusterRun(groups, m, img, K, min_group_size, base) ==
    LET q == quantize_colors(analyze_texture(img), K)
    IN IF q.outcome # "ok"
       THEN [groups |-> groups, outcome |-> q.outcome, trace |-> NoTrace]
       ELSE assign_vertex_groups(groups, m, q.levels, img, Threshold(K),
                                 min_group_size, base)

NoArgs ==
    [use_weights |-> FALSE, normalize_weights |-> FALSE, num_clusters |-> 0,
     min_group_size |-> 0]

---------------------------------------------------------------------------
(* The inputs the host supplies *)

PixelCoords(size) == (0..(size[2] - 1)) \X (0..(size[1] - 1))      \* <<y, x>>

Images ==
    UNION {UNION {{[size |-> sz, channels |-> c, pixels |-> px] :
                      px \in [PixelCoords(sz) -> Palette(c)]} : sz \in Sizes} :
           c \in ChannelCounts}

LoopSet == [vertex_index : Verts, uv : UVPoints]
\* a mesh without a UV layer has face corners but no UV data: uv is never read
BareLoopSet == [vertex_index : Verts, uv : {<<RZero, RZero>>}]

\* face-corner lists of up to n corners; the two vertex indices are
\* interchangeable, so the first corner is taken to be on vertex 0
CornerLists(S, n) ==
    {l \in UNION {[1..k -> S] : k \in 0..n} : l = <<>> \/ l[1].vertex_index = 0}

Meshes ==
    {[uv_active |-> TRUE, loops |-> l] : l \in CornerLists(LoopSet, MaxCorners)}
    \cup {[uv_active |-> FALSE, loops |-> l] : l \in CornerLists(BareLoopSet, MaxCorners)}

\* groups the object has before the operator runs: none, or the ones an
\* earlier run left
EarlierGroups ==
    (WeightGroupName :> [v \in Verts |-> Half])
    @@ (GroupName(BaseGroupName, 1) :> [v \in Verts |-> Half])
InitialGroups == {<<>>, EarlierGroups}

NoCall == [colors |-> {}, K |-> 0, state |-> "none", outcome |-> "none", levels |-> {}]

---------------------------------------------------------------------------
(* The operator, one invocation *)

Init ==
    /\ image \in Images
    /\ mesh \in Meshes
    /\ vertex_groups \in InitialGroups
    /\ pc = "idle"
    /\ args = NoArgs
    /\ outcome = [result |-> "none", error |-> "none"]
    /\ trace = NoTrace @@ [before |-> <<>>]
    /\ qcall = NoCall

Finish(run, a) ==
    \E r \in {run} :
        /\ vertex_groups' = r.groups
        /\ outcome' = Report(r.outcome)
        /\ trace' = r.trace @@ [before |-> vertex_groups]
        /\ args' = a
        /\ pc' = "done"
        /\ UNCHANGED <<image, mesh, qcall>>

\* execute with use_weights = False
ExecuteClusters(K, min_group_size) ==
    /\ pc = "idle"
    /\ Finish(ClusterRun(vertex_groups, mesh, image, K, min_group_size, BaseGroupName),
              [NoArgs EXCEPT !.num_clusters = K, !.min_group_size = min_group_size])

\* execute with use_weights = True
ExecuteWeights(normalize) ==
    /\ pc = "idle"
    /\ Finish(assign_weights_from_texture(vertex_groups, mesh, image, WeightGroupName,
                                          normalize),
              [NoArgs EXCEPT !.use_weights = TRUE, !.normalize_weights = normalize])

Next ==
    \/ \E K \in 2..MaxK, n \in MinSizes : ExecuteClusters(K, n)
    \/ \E normalize \in BOOLEAN : ExecuteWeights(normalize)

Spec == Init /\ [][Next]_vars

---------------------------------------------------------------------------
(* quantize_colors called on its own *)

InitQ ==
    /\ image = [size |-> <<1, 1>>, channels |-> 1, pixels |-> (<<0, 0>> :> <<RZero>>)]
    /\ mesh = [uv_active |-> FALSE, loops |-> <<>>]
    /\ vertex_groups = <<>>
    /\ pc = "idle"
    /\ args = NoArgs
    /\ outcome = [result |-> "none", error |-> "none"]
    /\ trace = NoTrace @@ [before |-> <<>>]
    /\ qcall \in {[NoCall EXCEPT !.colors = c, !.K = k, !.state = "called"] :
                    c \in SUBSET Intensities, k \in 0..MaxK}

QuantizeReturn ==
    /\ qcall.state = "called"
    /\ LET q == quantize_colors(qcall.colors, qcall.K)
       IN qcall' = [qcall EXCEPT !.state = "returned", !.outcome = q.outcome,
                                 !.levels = q.levels]
    /\ UNCHANGED <<image, mesh, vertex_groups, pc, args, outcome, trace>>

NextQ == QuantizeReturn

SpecQ == InitQ /\ [][NextQ]_vars

---------------------------------------------------------------------------
(* Properties of quantize_colors, checked under SpecQ *)

Returned == qcall.state = "returned"

\* C1: for a non-empty set of intensities and K >= 2, quantize_colors returns
\* between 1 and K levels, each in [0,1], and the maximum input maps to 1.0
C1_LevelsInUnitInterval ==
    (Returned /\ qcall.colors # {} /\ qcall.K >= 2) =>
        /\ qcall.outcome = "ok"
        /\ Cardinality(qcall.levels) >= 1
        /\ Cardinality(qcall.levels) <= qcall.K
        /\ \A l \in qcall.levels : RLe(RZero, l) /\ RLe(l, ROne)
        /\ ROne \in qcall.levels

\* C2: for a flat image (one distinct intensity) and K >= 2, quantize_colors
\* returns exactly the level set {0.0} and does not fault
C2_FlatImageGivesZero ==
    (Returned /\ Cardinality(qcall.colors) = 1 /\ qcall.K >= 2) =>
        qcall.outcome = "ok" /\ qcall.levels = {RZero}

\* C8: quantize_colors ends in an error, and returns no level set, when the set
\* of intensities is empty and when K < 2
C8_ErrorOnEmptyOrSmallK ==
    (Returned /\ (qcall.colors = {} \/ qcall.K < 2)) =>
        qcall.outcome # "ok" /\ qcall.levels = {}

---------------------------------------------------------------------------
(* Properties of one invocation of the operator, checked under Spec *)

Done == pc = "done"
Finished == Done /\ outcome.result = "FINISHED"
ClusterMode == Done /\ ~args.use_weights
WeightMode == Done /\ args.use_weights

\* the pixel the sampling of face corner i read
PixelRead(i) ==
    LET xy == PixelXY(mesh.loops[i].uv, image.size)
    IN image.pixels[<<WrapIndex(xy[2], image.size[2]), WrapIndex(xy[1], image.size[1])>>]

\* the face corner processed last among those of vertex v
LastCornerOf(v) ==
    CHOOSE i \in DOMAIN mesh.loops :
        /\ mesh.loops[i].vertex_index = v
        /\ \A j \in DOMAIN mesh.loops : mesh.loops[j].vertex_index = v => j <= i

\* C3: the groups one clustering run makes are named base.01 .. base.NN without
\* gaps, NN being the number of levels whose vertex set has at least
\* min_group_size members; the i-th name belongs to the i-th smallest such
\* level, and a smaller level makes no group and takes no number; a run that
\* raises before the loop over the levels makes no group
QualifyingLevels ==
    {l \in trace.levels : Cardinality(trace.assignments[l]) >= args.min_group_size}

C3_SequentialNames ==
    /\ (ClusterMode /\ ~Finished) => DOMAIN vertex_groups = DOMAIN trace.before
    /\ (ClusterMode /\ Finished) =>
        LET NN == Cardinality(QualifyingLevels)
        IN /\ Len(trace.created) = NN
           /\ \A i \in 1..NN :
                /\ trace.created[i].name = GroupName(BaseGroupName, i)
                /\ trace.created[i].color \in QualifyingLevels
                /\ Cardinality({l \in QualifyingLevels :
                                   RLe(l, trace.created[i].color)}) = i
                /\ \A v \in DOMAIN vertex_groups[GroupName(BaseGroupName, i)] :
                     \/ v \in trace.assignments[trace.created[i].color]
                     \/ /\ GroupName(BaseGroupName, i) \in DOMAIN trace.before
                        /\ v \in DOMAIN trace.before[GroupName(BaseGroupName, i)]
           /\ DOMAIN vertex_groups =
                DOMAIN trace.before \cup {GroupName(BaseGroupName, i) : i \in 1..NN}

\* a level too small for a group lies below the level that got the name base.01
C3_Witness ==
    /\ ClusterMode /\ Finished
    /\ Len(trace.created) >= 1
    /\ trace.created[1].name = GroupName(BaseGroupName, 1)
    /\ \E l \in trace.levels \ QualifyingLevels : RLt(l, trace.created[1].color)
    /\ GroupName(BaseGroupName, 1) \notin DOMAIN trace.before
    /\ GroupName(BaseGroupName, 1) \in DOMAIN vertex_groups

\* C4: either engine on a mesh with no active UV layer ends in the
\* no-active-UV-map error and leaves the vertex groups as they were
C4_NoUVLeavesGroups ==
    (Done /\ ~mesh.uv_active) =>
        /\ outcome = [result |-> "CANCELLED", error |-> "ValueError"]
        /\ vertex_groups = trace.before

C4_Witness ==
    /\ WeightMode /\ ~mesh.uv_active /\ mesh.loops # <<>>
    /\ outcome.error = "ValueError"
    /\ WeightGroupName \notin DOMAIN vertex_groups

\* C5 as stated: with normalize the weights the output group holds for the
\* vertices of the mesh's face corners have minimum 0.0 and maximum 1.0 when the
\* samples differ, and are all 1.0 when they are equal
StoredWeights ==
    {vertex_groups[WeightGroupName][mesh.loops[i].vertex_index] : i \in DOMAIN mesh.loops}

C5_GroupSpansUnitInterval ==
    (WeightMode /\ Finished /\ args.normalize_weights /\ mesh.loops # <<>>) =>
        IF Cardinality(Range(trace.samples)) > 1
        THEN RMin(StoredWeights) = RZero /\ RMax(StoredWeights) = ROne
        ELSE StoredWeights = {ROne}

\* C5 amended: the weights written, one per face corner in order, have minimum
\* 0.0 and maximum 1.0 when the samples differ and are all 1.0 when they are
\* equal; a vertex stores the weight written for its last face corner; a call
\* that raises writes no weight
WrittenWeights == {trace.writes[i].weight : i \in DOMAIN trace.writes}

C5_WrittenSpanUnitInterval ==
    /\ (WeightMode /\ ~Finished /\ args.normalize_weights /\ mesh.loops # <<>>) =>
        /\ \A n \in DOMAIN trace.before : vertex_groups[n] = trace.before[n]
        /\ \A n \in DOMAIN vertex_groups \ DOMAIN trace.before : vertex_groups[n] = <<>>
    /\ (WeightMode /\ Finished /\ args.normalize_weights /\ mesh.loops # <<>>) =>
        /\ DOMAIN trace.writes = DOMAIN mesh.loops
        /\ \A i \in DOMAIN trace.writes :
             trace.writes[i].vertex_index = mesh.loops[i].vertex_index
        /\ IF Cardinality(Range(trace.samples)) > 1
           THEN /\ RZero \in WrittenWeights /\ ROne \in WrittenWeights
                /\ \A w \in WrittenWeights : RLe(RZero, w) /\ RLe(w, ROne)
           ELSE WrittenWeights = {ROne}
        /\ \A i \in DOMAIN mesh.loops :
             LET v == mesh.loops[i].vertex_index
             IN vertex_groups[WeightGroupName][v] = trace.writes[LastCornerOf(v)].weight

\* a seam: one vertex, two face corners with different samples; the weight 0.0
\* was written and then replaced
C5_Witness ==
    /\ WeightMode /\ Finished /\ args.normalize_weights
    /\ Len(mesh.loops) = 2
    /\ mesh.loops[1].vertex_index = mesh.loops[2].vertex_index
    /\ trace.writes[1].weight = RZero
    /\ trace.writes[2].weight = ROne
    /\ RZero \notin StoredWeights

\* what the spec's sampler reads: u and v clamped into [0,1], then floor
ClampUnit(r) == IF RLt(r, RZero) THEN RZero ELSE IF RLt(ROne, r) THEN ROne ELSE r
ClampedPixel(i) ==
    LET uv == mesh.loops[i].uv
        x == Trunc(RMul(ClampUnit(uv[1]), RInt(image.size[1] - 1)))
        y == Trunc(RMul(ClampUnit(uv[2]), RInt(image.size[2] - 1)))
    IN image.pixels[<<y, x>>]

\* C6: sampling never faults on out-of-range UVs: the pixel read is the border
\* pixel on the side the UV left the unit square
C6_SamplingClamps ==
    (Done /\ mesh.uv_active) =>
        /\ outcome.error # "IndexError"
        /\ \A i \in DOMAIN trace.samples :
             trace.samples[i] = PixelValue(ClampedPixel(i), image.channels)

\* C7: the intensity a face corner samples is the single channel when C = 1 and
\* the mean of the first three channels when C > 1, as in analyze_texture
C7_SampleIsGreyscale ==
    Finished =>
        \A i \in DOMAIN trace.samples :
            trace.samples[i] = Greyscale(PixelRead(i), image.channels)

\* C9: in a created group of level L, a vertex v of L's set gets the weight
\* 1.0 - |L - s(v)|, s(v) being the last sample of v itself, when that weight is
\* at least the threshold, and is left out of the group otherwise
C9_WeightFromOwnSample ==
    (ClusterMode /\ Finished) =>
        \A k \in DOMAIN trace.created :
            LET name == trace.created[k].name
                L == trace.created[k].color
            IN \A v \in trace.assignments[L] :
                 LET w == RSub(ROne, RAbs(RSub(L, trace.samples[LastCornerOf(v)])))
                 IN IF RLe(Threshold(args.num_clusters), w)
                    THEN /\ v \in DOMAIN vertex_groups[name]
                         /\ vertex_groups[name][v] = w
                    ELSE \/ v \notin DOMAIN vertex_groups[name]
                         \/ /\ name \in DOMAIN trace.before
                            /\ v \in DOMAIN trace.before[name]
                            /\ vertex_groups[name][v] = trace.before[name][v]

\* C10 as stated: an invocation that raises after the UV check leaves the
\* vertex groups and the stored weights exactly as they were
C10_RaiseLeavesGroups ==
    (Done /\ mesh.uv_active /\ ~Finished) => vertex_groups = trace.before

\* C10 amended: an invocation that raises after the UV check leaves every
\* group that existed with the weights it had; clustering adds no group, and
\* weight mode adds at most its target group, with no weight in it
C10_RaiseWritesNoWeight ==
    (Done /\ mesh.uv_active /\ ~Finished) =>
        /\ \A n \in DOMAIN trace.before :
             n \in DOMAIN vertex_groups /\ vertex_groups[n] = trace.before[n]
        /\ \A n \in DOMAIN vertex_groups \ DOMAIN trace.before :
             WeightMode /\ n = WeightGroupName /\ DOMAIN vertex_groups[n] = {}

\* weight mode raised on its second face corner, after the first was sampled
C10_Witness ==
    /\ WeightMode /\ outcome.error = "IndexError"
    /\ Len(mesh.loops) = 2
    /\ ~SampleFaults(image, mesh.loops[1].uv)
    /\ WeightGroupName \notin DOMAIN trace.before
    /\ WeightGroupName \in DOMAIN vertex_groups

=============================================================================
